---- MODULE Spec2Model ----
(***************************************************************************)
(* The PIN-gated credential vault of src/src/auth_gate.py (and its copy in *)
(* src/src/utils/auth.py + src/src/ui/components.py): the JSON store file, *)
(* the PIN hasher, the OpenRouter key check and the login card's handlers. *)
(*                                                                         *)
(* Python strings and byte strings are sequences of tokens: a token is one *)
(* character ("0", " ", "a") or an opaque chunk of characters that are     *)
(* neither digits nor whitespace ("sk-", "salt").  None is a value that is *)
(* no string.                                                              *)
(***************************************************************************)
EXTENDS Integers, Sequences, FiniteSets, TLC

VARIABLES
    file,        \* the store file app_db.json on disk
    proc,        \* the process: "off", "login" (card shown), "app", "crashed"
    mode,        \* make_login_card's mode: "first" or "pin" ("none": no card)
    msg,         \* msg.value, the text under the buttons
    progress,    \* progress.visible
    dialog,      \* the PIN shown by the open modal AlertDialog, or None
    api_key_tf,  \* api_key_tf.value
    pin_tf,      \* pin_tf.value
    unlocked,    \* the argument on_success was called with (NotCalled before)
    run,         \* what the last handler run did
    call,        \* the last direct call of a function and its result
    inflight,    \* the runs of on_check_click under way, oldest first
    ring,        \* the progress ring as the page shows it (last page.update())
    issued,      \* the registration whose record the store file still holds
    quiz_state,  \* the user's rows of table quiz_state: their question_index
    quiz_results,\* the user's rows of table quiz_results: their result
    markup,      \* the question messages sent: TRUE while the keyboard is on
    tasks,       \* the quiz bot's handler tasks under way
    quiz_log     \* what the last step of a quiz handler did

vars == <<file, proc, mode, msg, progress, dialog, api_key_tf, pin_tf,
          unlocked, run, call, inflight, ring, issued,
          quiz_state, quiz_results, markup, tasks, quiz_log>>

gateVars == <<proc, mode, msg, progress, dialog, api_key_tf, pin_tf,
              unlocked, run, inflight, ring, issued>>

quizVars == <<quiz_state, quiz_results, markup, tasks, quiz_log>>

----------------------------------------------------------------------------
(* Bounds of the model. *)

NumKeys == 2        \* distinct OpenRouter keys a user may submit
NumSalts == 2       \* distinct values secrets.token_bytes(16) returns
MaxRand == 1        \* secrets.randbelow(10_000) returns 0..MaxRand
MaxWrong == 2       \* consecutive wrong PINs counted (more count as MaxWrong)
MaxCredits == 2     \* total_credits and total_usage are 0..MaxCredits
MaxThreads == 2     \* runs of on_check_click under way at once

(* Program constants. *)

PinLength == 4      \* len(pin) != 4, and the width of f"{n:04d}"
MaxLength == 4      \* pin_tf's max_length

----------------------------------------------------------------------------
(* Python values. *)

None == <<"<None>">>
NotCalled == <<"<not called>">>
EmptyStr == <<>>

\* bool(x) of an Optional[str]
Truthy(x) == x # None /\ x # EmptyStr

AsciiDigits == {ToString(i) : i \in 0..9}
\* U+0663 ARABIC-INDIC DIGIT THREE and U+00B2 SUPERSCRIPT TWO: not ASCII,
\* and str.isdigit() is True of both
UnicodeDigits == {"U+0663", "U+00B2"}
Whitespace == {" "}

RECURSIVE lstrip(_)
lstrip(s) ==
    IF s # EmptyStr /\ Head(s) \in Whitespace THEN lstrip(Tail(s)) ELSE s

RECURSIVE rstrip(_)
rstrip(s) ==
    IF s # EmptyStr /\ s[Len(s)] \in Whitespace
    THEN rstrip(SubSeq(s, 1, Len(s) - 1))
    ELSE s

\* A text taken as it was typed
no_strip(s) == s

\* str.strip()
strip(s) == rstrip(lstrip(s))

\* str.isdigit(): non-empty and every character is a (Unicode) digit
isdigit(s) ==
    /\ s # EmptyStr
    /\ \A i \in 1..Len(s) : s[i] \in AsciiDigits \cup UnicodeDigits

\* f"{n:04d}" of n >= 0: the decimal digits, zero-padded on the left to 4
RECURSIVE decimal(_)
decimal(n) ==
    IF n < 10 THEN <<ToString(n)>> ELSE Append(decimal(n \div 10), ToString(n % 10))

RECURSIVE zfill(_, _)
zfill(s, width) == IF Len(s) >= width THEN s ELSE zfill(<<"0">> \o s, width)

format_04d(n) == zfill(decimal(n), PinLength)

----------------------------------------------------------------------------
(* The PIN hasher.  PBKDF2-HMAC-SHA256 is taken as an ideal hash: distinct *)
(* (password, salt) pairs give distinct digests.  base64 adds a tag that   *)
(* decoding removes.                                                       *)

b64encode(bytes) == <<"b64">> \o bytes

b64decode(s) == IF s # EmptyStr /\ Head(s) = "b64" THEN Tail(s) ELSE EmptyStr

pbkdf2_hmac(password, salt) == <<"pbkdf2-sha256-100000">> \o password \o <<"$">> \o salt

\* _hash_pin that derives the key from the salt alone
_hash_pin_of_salt(pin, salt_b64) == b64encode(pbkdf2_hmac(EmptyStr, b64decode(salt_b64)))

_hash_pin(pin, salt_b64) == b64encode(pbkdf2_hmac(pin, b64decode(salt_b64)))

----------------------------------------------------------------------------
(* dict, and JSON text as the sequence of its members. *)

CredKeys == {"api_key", "pin_hash", "pin_salt"}
KeyOrder == <<"theme", "api_key", "pin_hash", "pin_salt">>

EmptyDict == [k \in {} |-> EmptyStr]

dict_get(d, k) == IF k \in DOMAIN d THEN d[k] ELSE None

dict_update(d, e) ==
    [k \in DOMAIN d \cup DOMAIN e |-> IF k \in DOMAIN e THEN e[k] ELSE d[k]]

dict_setitem(d, k, v) == [j \in DOMAIN d \cup {k} |-> IF j = k THEN v ELSE d[j]]

\* json.dump of a dict of strings: its members, one after the other
json_dump(d) ==
    LET present == SelectSeq(KeyOrder, LAMBDA k : k \in DOMAIN d)
    IN  [i \in 1..Len(present) |-> <<present[i], d[present[i]]>>]

\* json.load of an object: the last member of a name wins
json_load(text) ==
    LET names == {text[i][1] : i \in 1..Len(text)}
        last(k) == CHOOSE i \in 1..Len(text) :
                      /\ text[i][1] = k
                      /\ \A j \in 1..Len(text) : text[j][1] = k => j <= i
    IN  [k \in names |-> text[last(k)][2]]

----------------------------------------------------------------------------
(* The store file.  kind: "missing" (no file), "unreadable" (open fails),  *)
(* "badjson" (not JSON, e.g. a file truncated by a failed write),          *)
(* "nonobject" (JSON whose top-level value is a list, a number, a string   *)
(* or null), "object" (a JSON object, its members in text).                *)

Missing == [kind |-> "missing", text |-> <<>>]
Unreadable == [kind |-> "unreadable", text |-> <<>>]
BadJson == [kind |-> "badjson", text |-> <<>>]
NonObject == [kind |-> "nonobject", text |-> <<>>]
Object(d) == [kind |-> "object", text |-> json_dump(d)]

\* What a Python name is bound to after _load_db(): a dict, or another value
PyDict(d) == [type |-> "dict", d |-> d]
PyOther == [type |-> "other", d |-> EmptyDict]

\* _load_db(): {} on any exception of open() or json.load(), else whatever
\* json.load() returns
_load_db(f) ==
    CASE f.kind = "missing" -> PyDict(EmptyDict)
      [] f.kind \in {"unreadable", "badjson"} -> PyDict(EmptyDict)
      [] f.kind = "nonobject" -> PyOther
      [] OTHER -> PyDict(json_load(f.text))

\* How the disk answers a write: "ok"; "open_fails" (makedirs or open()
\* raises, the file is as before); "write_fails" (open() has truncated the
\* file, json.dump raises)
IoOutcomes == {"ok", "open_fails", "write_fails"}

\* _save_db whose failed write leaves the JSON text null in the file
_save_db_leaves_null(f, d, io) ==
    CASE io = "ok" -> [raised |-> "", file |-> Object(d)]
      [] io = "open_fails" -> [raised |-> "OSError", file |-> f]
      [] OTHER -> [raised |-> "OSError", file |-> NonObject]

\* _save_db(d): [raised, file]
_save_db(f, d, io) ==
    CASE io = "ok" -> [raised |-> "", file |-> Object(d)]
      [] io = "open_fails" -> [raised |-> "OSError", file |-> f]
      [] OTHER -> [raised |-> "OSError", file |-> BadJson]

\* get_credentials() returning the hash and the salt in the wrong order
get_credentials_swapped(f) ==
    LET v == _load_db(f)
    IN  IF v.type # "dict"
        THEN [raised |-> "AttributeError", ret |-> <<None, None, None>>]
        ELSE [raised |-> "",
              ret |-> <<dict_get(v.d, "api_key"), dict_get(v.d, "pin_salt"),
                        dict_get(v.d, "pin_hash")>>]

\* get_credentials(): [raised, ret], ret = (api_key, pin_hash, pin_salt).
\* .get of a value that is no dict raises AttributeError.
get_credentials(f) ==
    LET v == _load_db(f)
    IN  IF v.type # "dict"
        THEN [raised |-> "AttributeError", ret |-> <<None, None, None>>]
        ELSE [raised |-> "",
              ret |-> <<dict_get(v.d, "api_key"), dict_get(v.d, "pin_hash"),
                        dict_get(v.d, "pin_salt")>>]

\* verify_pin(pin) that lets every PIN pass when no hash or salt is stored
verify_pin_open_without_hash(f, pin) ==
    LET c == get_credentials(f)
        pin_hash == c.ret[2]
        pin_salt == c.ret[3]
    IN  IF c.raised # "" THEN [raised |-> c.raised, ret |-> FALSE]
        ELSE IF ~(Truthy(pin_hash) /\ Truthy(pin_salt))
        THEN [raised |-> "", ret |-> TRUE]
        ELSE [raised |-> "", ret |-> _hash_pin(pin, pin_salt) = pin_hash]

\* verify_pin(pin): [raised, ret]
verify_pin(f, pin) ==
    LET c == get_credentials(f)
        pin_hash == c.ret[2]
        pin_salt == c.ret[3]
    IN  IF c.raised # "" THEN [raised |-> c.raised, ret |-> FALSE]
        ELSE IF ~(Truthy(pin_hash) /\ Truthy(pin_salt))
        THEN [raised |-> "", ret |-> FALSE]
        ELSE [raised |-> "", ret |-> _hash_pin(pin, pin_salt) = pin_hash]

\* The three members with the salt stored as raw bytes, not base64
credential_members_raw_salt(api_key, pin, token_bytes) ==
    LET salt_b64 == b64encode(token_bytes)
    IN  [k \in CredKeys |->
            CASE k = "api_key" -> api_key
              [] k = "pin_hash" -> _hash_pin(pin, salt_b64)
              [] OTHER -> token_bytes]

\* The three members with the PIN itself in the place of its hash
credential_members_plain_pin(api_key, pin, token_bytes) ==
    LET salt_b64 == b64encode(token_bytes)
    IN  [k \in CredKeys |->
            CASE k = "api_key" -> api_key
              [] k = "pin_hash" -> pin
              [] OTHER -> salt_b64]

\* The three members save_credentials passes to d.update
credential_members(api_key, pin, token_bytes) ==
    LET salt_b64 == b64encode(token_bytes)
    IN  [k \in CredKeys |->
            CASE k = "api_key" -> api_key
              [] k = "pin_hash" -> _hash_pin(pin, salt_b64)
              [] OTHER -> salt_b64]

\* save_credentials() that writes the three members over whatever was there
save_credentials_overwriting(f, api_key, pin, token_bytes, io) ==
    _save_db(f, credential_members(api_key, pin, token_bytes), io)

\* save_credentials() that forgets the salt
save_credentials_no_salt(f, api_key, pin, token_bytes, io) ==
    LET v == _load_db(f)
        m == credential_members(api_key, pin, token_bytes)
    IN  IF v.type # "dict"
        THEN [raised |-> "AttributeError", file |-> f]
        ELSE _save_db(f, dict_update(v.d, [k \in {"api_key", "pin_hash"} |-> m[k]]), io)

\* save_credentials() in which the members already stored win
save_credentials_old_wins(f, api_key, pin, token_bytes, io) ==
    LET v == _load_db(f)
    IN  IF v.type # "dict"
        THEN [raised |-> "AttributeError", file |-> f]
        ELSE _save_db(f, dict_update(credential_members(api_key, pin, token_bytes), v.d), io)

\* save_credentials(api_key, pin), token_bytes what secrets.token_bytes(16)
\* returns: [raised, file]
save_credentials(f, api_key, pin, token_bytes, io) ==
    LET v == _load_db(f)
    IN  IF v.type # "dict"
        THEN [raised |-> "AttributeError", file |-> f]
        ELSE _save_db(f, dict_update(v.d, credential_members(api_key, pin, token_bytes)), io)

\* set_api_key(api_key): [raised, file]
set_api_key(f, api_key, io) ==
    LET v == _load_db(f)
    IN  IF v.type # "dict"
        THEN [raised |-> "TypeError", file |-> f]
        ELSE _save_db(f, dict_setitem(v.d, "api_key", api_key), io)

\* clear_credentials() that removes the key and leaves the PIN's hash and salt
clear_credentials_key_only(f, io) ==
    LET v == _load_db(f)
    IN  _save_db(f, [k \in DOMAIN v.d \ {"api_key"} |-> v.d[k]], io)

\* clear_credentials(): [raised, file]
clear_credentials(f, io) == _save_db(f, EmptyDict, io)

----------------------------------------------------------------------------
(* The values the model draws from. *)

ApiKeys == {<<"sk-", ToString(i)>> : i \in 1..NumKeys}
TokenBytes == {<<"salt", ToString(i)>> : i \in 1..NumSalts}
GeneratedPins == {format_04d(n) : n \in 0..MaxRand}

\* Dicts a store file may hold: any subset of the credential members, with
\* or without an unrelated member
FullRecords ==
    {credential_members(k, p, s) : k \in ApiKeys, p \in GeneratedPins, s \in TokenBytes}

Restrict(d, S) == [k \in DOMAIN d \cap S |-> d[k]]

PartialRecords ==
    {Restrict(d, S) : d \in {credential_members(<<"sk-", "1">>, format_04d(0), <<"salt", "1">>)},
                      S \in (SUBSET CredKeys) \ {{}, CredKeys}}
      \cup {[api_key |-> EmptyStr],
            [api_key |-> <<"sk-", "1">>, pin_hash |-> EmptyStr, pin_salt |-> EmptyStr]}

WithTheme(d) == dict_setitem(d, "theme", <<"dark">>)

StoredDicts ==
    LET ds == FullRecords \cup PartialRecords \cup {EmptyDict}
    IN  ds \cup {WithTheme(d) : d \in ds}

Files == {Missing, Unreadable, BadJson, NonObject} \cup {Object(d) : d \in StoredDicts}

\* The store's record
Record(f) == _load_db(f).d
HasAll(f) == CredKeys \subseteq DOMAIN Record(f)
HasNone(f) == CredKeys \cap DOMAIN Record(f) = {}

----------------------------------------------------------------------------
(* The OpenRouter key check.  A response is what requests.get meets:       *)
(* net = "fail" (timeout, DNS, connection refused: a RequestException) or  *)
(* an HTTP status with a body.  A body is not JSON ("notjson"), JSON whose *)
(* top-level value is no object ("nonobject") or an object whose "data"    *)
(* is absent, no object, or an object with total_credits and total_usage.  *)
(* A field is a number, absent, or a text float() rejects.                 *)

Num(n) == [t |-> "num", n |-> n]
Absent == [t |-> "absent", n |-> 0]
Text == [t |-> "text", n |-> 0]

Body(json, data, credits, usage) ==
    [json |-> json, data |-> data, credits |-> credits, usage |-> usage]
NotJsonBody == Body("notjson", "absent", Absent, Absent)
Balance(credits, usage) == Body("object", "object", Num(credits), Num(usage))

NetworkFailure == [net |-> "fail", status |-> 0, body |-> NotJsonBody, lib |-> "new"]
Http(status, body) == [net |-> "ok", status |-> status, body |-> body, lib |-> "new"]

\* The messages check_api_key_balance returns
ErrInvalidKey == <<"invalid OpenRouter key">>
ErrRateLimited == <<"limits exceeded, try later">>
ErrHttp == <<"HTTP error: ", "<response text>">>
ErrNetwork == <<"network error: ", "<exception>">>
ErrUnexpected == <<"unexpected error: ", "<exception>">>

Result(ok, balance, err) == [ok |-> ok, balance |-> balance, err |-> err]

\* The statuses answered before raise_for_status
OnlyUnauthorized == {401}
InvalidKeyStatuses == {401, 403}
RateLimitedStatuses == {429}

\* r.raise_for_status(): HTTPError for 4xx and 5xx
raises_for_status(status) == 400 <= status /\ status < 600

\* float(data.get(name, 0.0)): [raised, n]
float_field(v) ==
    CASE v.t = "num" -> [raised |-> FALSE, n |-> v.n]
      [] v.t = "absent" -> [raised |-> FALSE, n |-> 0]
      [] OTHER -> [raised |-> TRUE, n |-> 0]

\* is_ok of the returned triple
is_ok_not_negative(balance) == balance >= 0
is_ok(balance) == balance > 0

\* check_api_key_balance(api_key): (is_ok, balance, error_message).
\* r.json() of a body that is not JSON raises requests' JSONDecodeError, a
\* RequestException since requests 2.27 (lib = "new") and a plain ValueError
\* before (lib = "old").
check_api_key_balance(resp) ==
    LET b == resp.body
        total == float_field(b.credits)
        used == float_field(b.usage)
        balance == total.n - used.n
    IN  IF resp.net = "fail" THEN Result(FALSE, 0, ErrNetwork)
        ELSE IF resp.status \in InvalidKeyStatuses THEN Result(FALSE, 0, ErrInvalidKey)
        ELSE IF resp.status \in RateLimitedStatuses THEN Result(FALSE, 0, ErrRateLimited)
        ELSE IF raises_for_status(resp.status) THEN Result(FALSE, 0, ErrHttp)
        ELSE IF b.json = "notjson"
        THEN Result(FALSE, 0, IF resp.lib = "new" THEN ErrNetwork ELSE ErrUnexpected)
        ELSE IF b.json = "nonobject" THEN Result(FALSE, 0, ErrUnexpected)
        ELSE IF b.data = "absent" THEN Result(FALSE, 0, EmptyStr)
        ELSE IF b.data # "object" THEN Result(FALSE, 0, ErrUnexpected)
        ELSE IF total.raised \/ used.raised THEN Result(FALSE, 0, ErrUnexpected)
        ELSE Result(is_ok(balance), balance, EmptyStr)

\* What requests.get may meet: a network failure or any status with any
\* body, under either requests library
Statuses == {101, 200, 201, 204, 300, 304, 400, 401, 403, 404, 429, 500, 503}
Fields == {Num(n) : n \in 0..MaxCredits} \cup {Absent, Text}
Bodies ==
    {NotJsonBody, Body("nonobject", "absent", Absent, Absent),
     Body("object", "absent", Absent, Absent), Body("object", "nonobject", Absent, Absent)}
      \cup {Body("object", "object", c, u) : c \in Fields, u \in Fields}
Responses ==
    {NetworkFailure}
      \cup {[net |-> "ok", status |-> st, body |-> b, lib |-> l] :
                st \in Statuses, b \in Bodies, l \in {"new", "old"}}

----------------------------------------------------------------------------
(* The state before anything runs. *)

NoRun ==
    [op |-> "none", outcome |-> "", reads |-> 0, writes |-> 0, requests |-> 0,
     verified |-> FALSE, calls |-> 0, pin |-> None, result |-> Result(FALSE, 0, EmptyStr),
     wrongs |-> 0, key |-> None]

NoCall ==
    [op |-> "none", raised |-> "", ret |-> <<None, None, None>>, ok |-> FALSE,
     api_key |-> None, pin |-> None, written |-> EmptyDict, before |-> Missing,
     resp |-> NetworkFailure, result |-> Result(FALSE, 0, EmptyStr)]

\* issued: the PIN and the key of the registration that wrote the store file
\* as it is now, and whether the process was started since; NoIssue when no
\* registration wrote it or the file was written again since
NoIssue == [pin |-> None, key |-> None, restarted |-> FALSE]

\* The quiz bot after create_tables(): no row, no message, no task
NoQuizStep == [op |-> "none", index |-> -1, raised |-> "", quizzes |-> 0]

QuizOff ==
    /\ quiz_state = <<>>
    /\ quiz_results = <<>>
    /\ markup = <<>>
    /\ tasks = <<>>
    /\ quiz_log = NoQuizStep

GateOff ==
    /\ proc = "off"
    /\ mode = "none"
    /\ msg = EmptyStr
    /\ progress = FALSE
    /\ dialog = None
    /\ api_key_tf = EmptyStr
    /\ pin_tf = EmptyStr
    /\ unlocked = NotCalled
    /\ run = NoRun
    /\ inflight = <<>>
    /\ ring = FALSE
    /\ issued = NoIssue

----------------------------------------------------------------------------
(* The store functions called directly, one at a time, by a host that      *)
(* imports utils/auth.py: any sequence of them on any store file.          *)

\* Arguments a caller may pass
CallKeys == ApiKeys
CallPins == GeneratedPins

CallGetCredentials ==
    LET r == get_credentials(file)
    IN  /\ call' = [NoCall EXCEPT !.op = "get_credentials", !.raised = r.raised,
                                  !.ret = r.ret, !.before = file]
        /\ UNCHANGED <<file, gateVars, quizVars>>

CallVerifyPin ==
    \E pin \in CallPins :
        LET r == verify_pin(file, pin)
        IN  /\ call' = [NoCall EXCEPT !.op = "verify_pin", !.raised = r.raised,
                                      !.ok = r.ret, !.pin = pin, !.before = file]
            /\ UNCHANGED <<file, gateVars, quizVars>>

CallSaveCredentials ==
    \E api_key \in CallKeys, pin \in CallPins, token_bytes \in TokenBytes, io \in IoOutcomes :
        LET r == save_credentials(file, api_key, pin, token_bytes, io)
        IN  /\ file' = r.file
            /\ call' = [NoCall EXCEPT !.op = "save_credentials", !.raised = r.raised,
                                      !.api_key = api_key, !.pin = pin,
                                      !.written = credential_members(api_key, pin, token_bytes),
                                      !.before = file]
            /\ UNCHANGED <<gateVars, quizVars>>

CallSetApiKey ==
    \E api_key \in CallKeys, io \in IoOutcomes :
        LET r == set_api_key(file, api_key, io)
        IN  /\ file' = r.file
            /\ call' = [NoCall EXCEPT !.op = "set_api_key", !.raised = r.raised,
                                      !.api_key = api_key, !.before = file]
            /\ UNCHANGED <<gateVars, quizVars>>

CallClearCredentials ==
    \E io \in IoOutcomes :
        LET r == clear_credentials(file, io)
        IN  /\ file' = r.file
            /\ call' = [NoCall EXCEPT !.op = "clear_credentials", !.raised = r.raised,
                                      !.before = file]
            /\ UNCHANGED <<gateVars, quizVars>>

StoreNext ==
    \/ CallGetCredentials
    \/ CallVerifyPin
    \/ CallSaveCredentials
    \/ CallSetApiKey
    \/ CallClearCredentials

\* Any store file
StoreInit == file \in Files /\ call = NoCall /\ GateOff /\ QuizOff
SpecStore == StoreInit /\ [][StoreNext]_vars

\* A store that starts empty or with a full record
CleanFiles == {f \in Files : f.kind # "nonobject" /\ (HasAll(f) \/ HasNone(f))}
CleanInit == file \in CleanFiles /\ call = NoCall /\ GateOff /\ QuizOff
SpecStoreClean == CleanInit /\ [][StoreNext]_vars

----------------------------------------------------------------------------
(* check_api_key_balance called directly, once, on any response.           *)

CallCheckApiKeyBalance ==
    /\ call.op = "none"
    /\ call' = [call EXCEPT !.op = "check_api_key_balance",
                            !.result = check_api_key_balance(call.resp)]
    /\ UNCHANGED <<file, gateVars, quizVars>>

ValidatorInit ==
    /\ file = Missing
    /\ call \in {[NoCall EXCEPT !.resp = resp] : resp \in Responses}
    /\ GateOff
    /\ QuizOff
SpecValidator == ValidatorInit /\ [][CallCheckApiKeyBalance]_vars

----------------------------------------------------------------------------
(* The login card (make_login_card).  Each handler runs to its end before  *)
(* the next event is taken.  A handler's button is on the page only in its *)
(* mode, and the modal PIN dialog bars the card until it is closed.        *)

\* msg.value
MsgEnterKey == <<"enter the OpenRouter key">>
MsgLowBalance == <<"insufficient balance or invalid key">>
MsgEnterPin == <<"enter the 4-digit PIN">>
MsgWrongPin == <<"wrong PIN">>

\* What a user may have typed into api_key_tf
KeyTexts ==
    {EmptyStr, <<" ">>} \cup ApiKeys \cup {<<" ">> \o k \o <<" ">> : k \in ApiKeys}

\* What a user may have typed into pin_tf (at most max_length characters)
PinTexts ==
    {t \in GeneratedPins \cup
            {EmptyStr, <<"0", "0", "0">>, <<"0", "0", "a", "1">>, <<" ", "0", "0", " ">>,
             <<"U+0663", "U+0663", "U+0663", "U+0663">>, <<"9", "9", "9", "9">>} :
        Len(t) <= MaxLength}

\* What the key check may meet
GateResponses ==
    {NetworkFailure, Http(401, NotJsonBody), Http(429, NotJsonBody),
     Http(500, NotJsonBody), Http(200, NotJsonBody),
     Http(200, Balance(1, 1)), Http(200, Balance(1, 2)), Http(200, Balance(2, 1))}

Run(op, outcome) == [NoRun EXCEPT !.op = op, !.outcome = outcome]

\* A card that takes clicks under an open dialog
Clickable_under_dialog(m) == proc = "login" /\ mode = m

\* The card can take a click on a control shown in mode m
Clickable(m) == proc = "login" /\ mode = m /\ dialog = None

\* A card that always starts with the key entry
initial_mode_first(api_key) == "first"

\* mode = "pin" if get_credentials()[0] else "first"
initial_mode(api_key) == IF Truthy(api_key) THEN "pin" ELSE "first"

\* boot -> make_login_card
Boot ==
    /\ UNCHANGED quizVars
    /\ proc = "off"
    /\ LET c == get_credentials(file)
       IN  IF c.raised # ""
           THEN /\ proc' = "crashed"
                /\ run' = [Run("boot", c.raised) EXCEPT !.reads = 1]
                /\ UNCHANGED mode
           ELSE /\ proc' = "login"
                /\ mode' = initial_mode(c.ret[1])
                /\ run' = [Run("boot", "created") EXCEPT !.reads = 1]
    /\ ring' = FALSE
    /\ issued' = IF issued = NoIssue THEN issued ELSE [issued EXCEPT !.restarted = TRUE]
    /\ UNCHANGED <<file, msg, progress, dialog, api_key_tf, pin_tf, unlocked, call, inflight>>

\* The process ends; nothing of it but the store file is left
Exit ==
    /\ UNCHANGED quizVars
    /\ proc # "off"
    /\ proc' = "off"
    /\ mode' = "none"
    /\ msg' = EmptyStr
    /\ progress' = FALSE
    /\ dialog' = None
    /\ api_key_tf' = EmptyStr
    /\ pin_tf' = EmptyStr
    /\ unlocked' = NotCalled
    /\ run' = NoRun
    /\ inflight' = <<>>
    /\ ring' = FALSE
    /\ UNCHANGED <<file, call, issued>>

\* The dialog's OK button: page.close(dlg)
CloseDialog ==
    /\ UNCHANGED quizVars
    /\ proc = "login"
    /\ dialog # None
    /\ dialog' = None
    /\ run' = Run("close_dialog", "closed")
    /\ UNCHANGED <<file, proc, mode, msg, progress, api_key_tf, pin_tf, unlocked, call,
                   inflight, ring, issued>>

\* The body of on_check_click once the key check has returned r after sent
\* requests; proceed: whether the handler goes on to generate and save a PIN
check_click(text, r, sent, proceed, n, token_bytes, io) ==
    LET key == strip(text)
        pin == format_04d(n)
        s == save_credentials(file, key, pin, token_bytes, io)
    IN  /\ api_key_tf' = text
        /\ IF ~Truthy(key)
           THEN /\ msg' = MsgEnterKey
                /\ run' = Run("check", "EmptyKey")
                /\ ring' = progress
                /\ UNCHANGED <<file, mode, progress, dialog, issued>>
           ELSE IF ~proceed
           THEN /\ progress' = FALSE
                /\ msg' = IF Truthy(r.err) THEN r.err ELSE MsgLowBalance
                /\ run' = [Run("check", "Rejected") EXCEPT
                              !.requests = sent, !.result = r, !.key = key]
                /\ ring' = FALSE
                /\ UNCHANGED <<file, mode, dialog, issued>>
           ELSE IF s.raised # ""
           THEN /\ progress' = FALSE
                /\ file' = s.file
                /\ run' = [Run("check", s.raised) EXCEPT
                              !.requests = sent, !.result = r, !.reads = 1, !.key = key,
                              !.writes = IF s.file = file THEN 0 ELSE 1, !.pin = pin]
                /\ ring' = TRUE
                /\ issued' = IF s.file = file THEN issued ELSE NoIssue
                /\ UNCHANGED <<mode, msg, dialog>>
           ELSE /\ progress' = FALSE
                /\ file' = s.file
                /\ dialog' = pin
                /\ msg' = EmptyStr
                /\ mode' = "pin"
                /\ run' = [Run("check", "Registered") EXCEPT
                              !.requests = sent, !.result = r, !.reads = 1, !.key = key,
                              !.writes = 1, !.pin = pin]
                /\ ring' = FALSE
                /\ issued' = [pin |-> pin, key |-> key, restarted |-> FALSE]
        /\ UNCHANGED <<proc, pin_tf, unlocked, call, inflight>>

\* on_check_click that stops only on an error message ("if err:")
on_check_click_if_err(text, resp, n, token_bytes, io) ==
    LET r == check_api_key_balance(resp)
    IN  check_click(text, r, 1, ~Truthy(r.err), n, token_bytes, io)

\* on_check_click that asks once more after a network error
on_check_click_retry(text, resp, n, token_bytes, io) ==
    LET r == check_api_key_balance(resp)
    IN  check_click(text, r, IF r.err = ErrNetwork THEN 2 ELSE 1, r.ok, n, token_bytes, io)

\* on_check_click with text in api_key_tf, resp met by the one requests.get
\* of check_api_key_balance, and, past the check ("if not ok: ... return"),
\* n from secrets.randbelow(10_000), token_bytes from secrets.token_bytes(16)
\* and io the disk's answer
on_check_click(text, resp, n, token_bytes, io) ==
    LET r == check_api_key_balance(resp)
    IN  check_click(text, r, 1, r.ok, n, token_bytes, io)

\* The key check is made only for a key that is not empty, and the PIN, the
\* salt and the write only past a check that returned ok
OnCheckClick ==
    /\ UNCHANGED quizVars
    /\ Clickable("first")
    /\ \E text \in KeyTexts :
          IF ~Truthy(strip(text))
          THEN on_check_click(text, NetworkFailure, 0, <<>>, "ok")
          ELSE \E resp \in GateResponses :
                  IF ~check_api_key_balance(resp).ok
                  THEN on_check_click(text, resp, 0, <<>>, "ok")
                  ELSE \E n \in 0..MaxRand, token_bytes \in TokenBytes, io \in IoOutcomes :
                          on_check_click(text, resp, n, token_bytes, io)

\* The format check of on_login_click
well_formed(pin) == ~(Len(pin) # PinLength \/ ~isdigit(pin))

\* on_login_click that verifies the PIN before it looks at its format
on_login_click_verify_first(text) ==
    LET pin == strip(text)
        v == verify_pin(file, pin)
        c == get_credentials(file)
    IN  /\ pin_tf' = text
        /\ IF v.raised # ""
           THEN /\ run' = [Run("login", v.raised) EXCEPT !.reads = 1, !.verified = TRUE]
                /\ UNCHANGED <<proc, msg, unlocked>>
           ELSE IF ~well_formed(pin)
           THEN /\ msg' = MsgEnterPin
                /\ run' = [Run("login", "InvalidFormat") EXCEPT !.reads = 1, !.verified = TRUE]
                /\ UNCHANGED <<proc, unlocked>>
           ELSE IF ~v.ret
           THEN /\ msg' = MsgWrongPin
                /\ run' = [Run("login", "WrongPin") EXCEPT !.reads = 1, !.verified = TRUE]
                /\ UNCHANGED <<proc, unlocked>>
           ELSE /\ unlocked' = c.ret[1]
                /\ proc' = "app"
                /\ run' = [Run("login", "Success") EXCEPT
                              !.reads = 2, !.verified = TRUE, !.calls = 1,
                              !.key = c.ret[1]]
                /\ UNCHANGED msg
        /\ ring' = IF v.raised # "" /\ well_formed(pin) THEN ring
                   ELSE IF well_formed(pin) /\ v.ret THEN FALSE ELSE progress
        /\ UNCHANGED <<file, mode, progress, dialog, api_key_tf, call, inflight, issued>>

\* The wrong PINs submitted in a row up to the last handler run
wrongs_so_far == IF run.op = "login" /\ run.outcome = "WrongPin" THEN run.wrongs ELSE 0

\* The body of on_login_click: v what verify_pin answered, handed what
\* on_success is called with.  on_success (boot's) hands the key to the host
\* and launch_legacy_ui cleans the page of the card.
login_click(text, v, handed) ==
    LET pin == strip(text)
    IN  /\ pin_tf' = text
        /\ IF ~well_formed(pin)
           THEN /\ msg' = MsgEnterPin
                /\ run' = Run("login", "InvalidFormat")
                /\ UNCHANGED <<proc, unlocked>>
           ELSE IF v.raised # ""
           THEN /\ run' = [Run("login", v.raised) EXCEPT !.reads = 1, !.verified = TRUE]
                /\ UNCHANGED <<proc, msg, unlocked>>
           ELSE IF ~v.ret
           THEN /\ msg' = MsgWrongPin
                /\ run' = [Run("login", "WrongPin") EXCEPT
                              !.reads = 1, !.verified = TRUE,
                              !.wrongs = IF wrongs_so_far < MaxWrong
                                         THEN wrongs_so_far + 1 ELSE MaxWrong]
                /\ UNCHANGED <<proc, unlocked>>
           ELSE /\ unlocked' = handed
                /\ proc' = "app"
                /\ run' = [Run("login", "Success") EXCEPT
                              !.reads = 2, !.verified = TRUE, !.calls = 1, !.key = get_credentials(file).ret[1],
                              !.wrongs = wrongs_so_far]
                /\ UNCHANGED msg
        /\ ring' = IF v.raised # "" /\ well_formed(pin) THEN ring
                   ELSE IF well_formed(pin) /\ v.ret THEN FALSE ELSE progress
        /\ UNCHANGED <<file, mode, progress, dialog, api_key_tf, call, inflight, issued>>

\* on_login_click that hands the stored hash to on_success
on_login_click_hands_hash(text) ==
    login_click(text, verify_pin(file, strip(text)), get_credentials(file).ret[2])

\* on_login_click that bars the card after a wrong PIN
on_login_click_lockout(text) ==
    login_click(text,
                IF wrongs_so_far > 0 THEN [raised |-> "", ret |-> FALSE]
                ELSE verify_pin(file, strip(text)),
                get_credentials(file).ret[1])

\* on_login_click that takes every well-formed PIN for the right one
on_login_click_no_verify(text) ==
    login_click(text, [raised |-> "", ret |-> TRUE], get_credentials(file).ret[1])

\* on_login_click with text in pin_tf
on_login_click(text) ==
    login_click(text, verify_pin(file, strip(text)), get_credentials(file).ret[1])

OnLoginClick ==
    /\ UNCHANGED quizVars
    /\ Clickable("pin")
    /\ \E text \in PinTexts : on_login_click(text)

\* on_reset_click that goes back to the first run and leaves the store alone
on_reset_click_keeps_store(io) ==
    /\ api_key_tf' = EmptyStr
    /\ pin_tf' = EmptyStr
    /\ mode' = "first"
    /\ msg' = EmptyStr
    /\ run' = Run("reset", "Reset")
    /\ ring' = progress
    /\ UNCHANGED <<file, proc, progress, dialog, unlocked, call, inflight, issued>>

\* on_reset_click, io the disk's answer to the write
on_reset_click(io) ==
    LET r == clear_credentials(file, io)
    IN  /\ file' = r.file
        /\ IF r.raised # ""
           THEN /\ run' = [Run("reset", r.raised) EXCEPT
                              !.writes = IF r.file = file THEN 0 ELSE 1]
                /\ UNCHANGED <<mode, msg, api_key_tf, pin_tf>>
           ELSE /\ api_key_tf' = EmptyStr
                /\ pin_tf' = EmptyStr
                /\ mode' = "first"
                /\ msg' = EmptyStr
                /\ run' = [Run("reset", "Reset") EXCEPT !.writes = 1]
        /\ ring' = IF r.raised # "" THEN ring ELSE progress
        /\ issued' = IF r.file = file THEN issued ELSE NoIssue
        /\ UNCHANGED <<proc, progress, dialog, unlocked, call, inflight>>

OnResetClick ==
    /\ UNCHANGED quizVars
    /\ Clickable("pin")
    /\ \E io \in IoOutcomes : on_reset_click(io)

Init == file \in Files /\ call = NoCall /\ GateOff /\ QuizOff

Next ==
    \/ Boot
    \/ Exit
    \/ CloseDialog
    \/ OnCheckClick
    \/ OnLoginClick
    \/ OnResetClick

Spec == Init /\ [][Next]_vars

----------------------------------------------------------------------------
(* The second copy of the card: class LoginCard of ui/components.py over    *)
(* the store functions of utils/auth.py (the same as auth_gate.py's), given *)
(* boot's on_success.  Its check_api_key_balance comes from api.openrouter; *)
(* the card is followed for the results the validator above returns.       *)

CardResults == {check_api_key_balance(resp) : resp \in GateResponses}

\* _switch_mode that leaves the message
LoginCard_switch_mode_keeps_msg(new_mode) ==
    /\ mode' = new_mode
    /\ ring' = FALSE
    /\ UNCHANGED msg

\* LoginCard._switch_mode(mode), called with progress.visible False
LoginCard_switch_mode(new_mode) ==
    /\ mode' = new_mode
    /\ msg' = EmptyStr
    /\ ring' = FALSE

\* LoginCard.__init__ in a process that starts
LoginCard_init ==
    /\ UNCHANGED quizVars
    /\ proc = "off"
    /\ LET creds == get_credentials(file)
       IN  IF creds.raised # ""
           THEN /\ proc' = "crashed"
                /\ run' = [Run("boot", creds.raised) EXCEPT !.reads = 1]
                /\ UNCHANGED mode
           ELSE /\ proc' = "login"
                /\ mode' = IF Truthy(creds.ret[1]) THEN "pin" ELSE "first"
                /\ run' = [Run("boot", "created") EXCEPT !.reads = 1]
    /\ ring' = FALSE
    /\ issued' = IF issued = NoIssue THEN issued ELSE [issued EXCEPT !.restarted = TRUE]
    /\ UNCHANGED <<file, msg, progress, dialog, api_key_tf, pin_tf, unlocked, call, inflight>>

\* LoginCard.on_check_click, r what check_api_key_balance(key) returned
LoginCard_on_check_click(text, r, n, token_bytes, io) ==
    LET key == strip(text)
        pin == format_04d(n)
        saved == save_credentials(file, key, pin, token_bytes, io)
    IN  /\ api_key_tf' = text
        /\ UNCHANGED <<proc, pin_tf, unlocked, call, inflight>>
        /\ IF key = EmptyStr
           THEN /\ msg' = MsgEnterKey
                /\ ring' = progress
                /\ run' = Run("check", "EmptyKey")
                /\ UNCHANGED <<file, mode, progress, dialog, issued>>
           ELSE /\ progress' = FALSE
                /\ IF ~r.ok
                   THEN /\ msg' = IF r.err # EmptyStr THEN r.err ELSE MsgLowBalance
                        /\ ring' = FALSE
                        /\ run' = [Run("check", "Rejected") EXCEPT
                                      !.requests = 1, !.result = r, !.key = key]
                        /\ UNCHANGED <<file, mode, dialog, issued>>
                   ELSE /\ file' = saved.file
                        /\ IF saved.raised # ""
                           THEN /\ ring' = TRUE
                                /\ issued' = IF saved.file = file THEN issued ELSE NoIssue
                                /\ run' = [Run("check", saved.raised) EXCEPT
                                              !.requests = 1, !.result = r, !.reads = 1,
                                              !.pin = pin, !.key = key,
                                              !.writes = IF saved.file = file THEN 0 ELSE 1]
                                /\ UNCHANGED <<mode, msg, dialog>>
                           ELSE /\ dialog' = pin
                                /\ LoginCard_switch_mode("pin")
                                /\ issued' = [pin |-> pin, key |-> key, restarted |-> FALSE]
                                /\ run' = [Run("check", "Registered") EXCEPT
                                              !.requests = 1, !.result = r, !.reads = 1,
                                              !.pin = pin, !.key = key, !.writes = 1]

LoginCardOnCheckClick ==
    /\ UNCHANGED quizVars
    /\ Clickable("first")
    /\ \E text \in KeyTexts :
          IF strip(text) = EmptyStr
          THEN LoginCard_on_check_click(text, Result(FALSE, 0, EmptyStr), 0, <<>>, "ok")
          ELSE \E r \in CardResults :
                  IF ~r.ok
                  THEN LoginCard_on_check_click(text, r, 0, <<>>, "ok")
                  ELSE \E n \in 0..MaxRand, token_bytes \in TokenBytes, io \in IoOutcomes :
                          LoginCard_on_check_click(text, r, n, token_bytes, io)

\* LoginCard.on_login_click
LoginCard_on_login_click(text) ==
    LET pin == strip(text)
        checked == verify_pin(file, pin)
        creds == get_credentials(file)
    IN  /\ pin_tf' = text
        /\ UNCHANGED <<file, mode, progress, dialog, api_key_tf, call, inflight, issued>>
        /\ IF Len(pin) # PinLength \/ ~isdigit(pin)
           THEN /\ msg' = MsgEnterPin
                /\ ring' = progress
                /\ run' = Run("login", "InvalidFormat")
                /\ UNCHANGED <<proc, unlocked>>
           ELSE IF checked.raised # ""
           THEN /\ run' = [Run("login", checked.raised) EXCEPT
                              !.reads = 1, !.verified = TRUE]
                /\ UNCHANGED <<proc, msg, unlocked, ring>>
           ELSE IF ~checked.ret
           THEN /\ msg' = MsgWrongPin
                /\ ring' = progress
                /\ run' = [Run("login", "WrongPin") EXCEPT
                              !.reads = 1, !.verified = TRUE,
                              !.wrongs = IF wrongs_so_far < MaxWrong
                                         THEN wrongs_so_far + 1 ELSE MaxWrong]
                /\ UNCHANGED <<proc, unlocked>>
           ELSE /\ unlocked' = creds.ret[1]
                /\ proc' = "app"
                /\ ring' = FALSE
                /\ run' = [Run("login", "Success") EXCEPT
                              !.reads = 2, !.verified = TRUE, !.calls = 1, !.key = creds.ret[1],
                              !.wrongs = wrongs_so_far]
                /\ UNCHANGED msg

LoginCardOnLoginClick ==
    /\ UNCHANGED quizVars
    /\ Clickable("pin")
    /\ \E text \in PinTexts : LoginCard_on_login_click(text)

\* LoginCard.on_reset_click
LoginCard_on_reset_click(io) ==
    LET cleared == clear_credentials(file, io)
    IN  /\ file' = cleared.file
        /\ issued' = IF cleared.file = file THEN issued ELSE NoIssue
        /\ UNCHANGED <<proc, progress, dialog, unlocked, call, inflight>>
        /\ IF cleared.raised # ""
           THEN /\ run' = [Run("reset", cleared.raised) EXCEPT
                              !.writes = IF cleared.file = file THEN 0 ELSE 1]
                /\ UNCHANGED <<mode, msg, api_key_tf, pin_tf, ring>>
           ELSE /\ api_key_tf' = EmptyStr
                /\ pin_tf' = EmptyStr
                /\ LoginCard_switch_mode("first")
                /\ run' = [Run("reset", "Reset") EXCEPT !.writes = 1]

LoginCardOnResetClick ==
    /\ UNCHANGED quizVars
    /\ Clickable("pin")
    /\ \E io \in IoOutcomes : LoginCard_on_reset_click(io)

\* Either copy of the card takes each event
BothNext ==
    \/ Boot
    \/ Exit
    \/ CloseDialog
    \/ OnCheckClick
    \/ OnLoginClick
    \/ OnResetClick
    \/ LoginCard_init
    \/ LoginCardOnCheckClick
    \/ LoginCardOnLoginClick
    \/ LoginCardOnResetClick

SpecBoth == Init /\ [][BothNext]_vars

----------------------------------------------------------------------------
(* The card with its handlers run as Flet runs them: each click starts its *)
(* handler in a thread of the page's pool, so a handler that waits for the *)
(* key check leaves the card open to the next click.  A run of             *)
(* on_check_click is three steps: the click up to the request, the         *)
(* request's return up to save_credentials, and page.open(dlg) with        *)
(* switch_mode.  A run of on_login_click is two: the click up to           *)
(* verify_pin, and get_credentials with on_success.  The card is followed  *)
(* from boot, over a store without a record or with one, up to the user's  *)
(* closing of a PIN dialog.                                                *)

ConcFiles ==
    {Missing, Object(EmptyDict),
     Object(credential_members(<<"sk-", "1">>, format_04d(0), <<"salt", "1">>))}
ConcPinTexts == GeneratedPins
ConcKeyTexts == {EmptyStr} \cup ApiKeys
ConcResponses == {NetworkFailure, Http(200, Balance(2, 1))}

Thread(key, pc, pin) == [key |-> key, pc |-> pc, pin |-> pin]

\* s without its i-th element
RemoveAt(s, i) == [j \in 1..(Len(s) - 1) |-> IF j < i THEN s[j] ELSE s[j + 1]]

\* The click on btn_check: up to check_api_key_balance's requests.get
CheckClicked ==
    /\ UNCHANGED quizVars
    /\ Clickable("first")
    /\ Len(inflight) < MaxThreads
    /\ \E text \in ConcKeyTexts :
          LET key == strip(text)
          IN  /\ api_key_tf' = text
              /\ IF ~Truthy(key)
                 THEN /\ msg' = MsgEnterKey
                      /\ run' = Run("check", "EmptyKey")
                      /\ ring' = progress
                      /\ UNCHANGED <<progress, inflight>>
                 ELSE /\ progress' = TRUE
                      /\ inflight' = Append(inflight, Thread(key, "request", None))
                      /\ run' = [Run("check", "Requested") EXCEPT !.requests = 1]
                      /\ ring' = TRUE
                      /\ UNCHANGED msg
    /\ UNCHANGED <<file, proc, mode, dialog, pin_tf, unlocked, call, issued>>

\* The request of run i returns: from "progress.current.visible = False" to
\* save_credentials(key, pin)
CheckReturned ==
    \E i \in 1..Len(inflight) :
        /\ proc = "login"
        /\ inflight[i].pc = "request"
        /\ progress' = FALSE
        /\ \E resp \in ConcResponses :
              LET r == check_api_key_balance(resp)
              IN  IF ~r.ok
                  THEN /\ msg' = IF Truthy(r.err) THEN r.err ELSE MsgLowBalance
                       /\ inflight' = RemoveAt(inflight, i)
                       /\ run' = [Run("check", "Rejected") EXCEPT !.result = r]
                       /\ ring' = FALSE
                       /\ UNCHANGED <<file, issued>>
                  ELSE \E n \in 0..MaxRand, token_bytes \in TokenBytes, io \in IoOutcomes :
                          LET pin == format_04d(n)
                              s == save_credentials(file, inflight[i].key, pin, token_bytes, io)
                          IN  /\ file' = s.file
                              /\ inflight' =
                                    IF s.raised # "" THEN RemoveAt(inflight, i)
                                    ELSE [inflight EXCEPT ![i] = Thread(@.key, "saved", pin)]
                              /\ run' = [Run("check", IF s.raised # "" THEN s.raised ELSE "Saved")
                                            EXCEPT !.result = r, !.reads = 1, !.pin = pin,
                                                   !.writes = IF s.file = file THEN 0 ELSE 1]
                              /\ issued' =
                                    IF s.raised = ""
                                    THEN [pin |-> pin, key |-> inflight[i].key,
                                          restarted |-> FALSE]
                                    ELSE IF s.file = file THEN issued ELSE NoIssue
                              /\ UNCHANGED <<msg, ring>>
        /\ UNCHANGED <<proc, mode, dialog, api_key_tf, pin_tf, unlocked, call, quizVars>>

\* Run i shows its PIN: page.open(dlg), msg and switch_mode("pin")
PinShown ==
    \E i \in 1..Len(inflight) :
        /\ proc = "login"
        /\ inflight[i].pc = "saved"
        /\ dialog' = inflight[i].pin
        /\ msg' = EmptyStr
        /\ mode' = "pin"
        /\ inflight' = RemoveAt(inflight, i)
        /\ run' = [Run("check", "Registered") EXCEPT !.pin = inflight[i].pin]
        /\ ring' = progress
        /\ UNCHANGED <<file, proc, progress, api_key_tf, pin_tf, unlocked, call, issued,
                       quizVars>>

\* The click on btn_login: up to "if not verify_pin(pin)".  A run that goes
\* on keeps the api_key of the record verify_pin read.
LoginClicked ==
    /\ UNCHANGED quizVars
    /\ Clickable("pin")
    /\ Len(inflight) < MaxThreads
    /\ \E text \in ConcPinTexts :
          LET pin == strip(text)
              v == verify_pin(file, pin)
          IN  /\ pin_tf' = text
              /\ IF ~well_formed(pin)
                 THEN /\ msg' = MsgEnterPin
                      /\ ring' = progress
                      /\ run' = Run("login", "InvalidFormat")
                      /\ UNCHANGED inflight
                 ELSE IF v.raised # ""
                 THEN /\ run' = [Run("login", v.raised) EXCEPT !.reads = 1, !.verified = TRUE]
                      /\ UNCHANGED <<msg, ring, inflight>>
                 ELSE IF ~v.ret
                 THEN /\ msg' = MsgWrongPin
                      /\ ring' = progress
                      /\ run' = [Run("login", "WrongPin") EXCEPT
                                    !.reads = 1, !.verified = TRUE]
                      /\ UNCHANGED inflight
                 ELSE /\ inflight' =
                            Append(inflight,
                                   Thread(get_credentials(file).ret[1], "verified", pin))
                      /\ run' = [Run("login", "Verified") EXCEPT
                                    !.reads = 1, !.verified = TRUE]
                      /\ UNCHANGED <<msg, ring>>
    /\ UNCHANGED <<file, proc, mode, progress, dialog, api_key_tf, unlocked, call, issued>>

\* Run i reads the key and calls on_success: "api_key, _, _ =
\* get_credentials()" and boot's on_success, whose os.environ[...] = api_key
\* raises TypeError for None, before launch_legacy_ui
LoginHanded ==
    \E i \in 1..Len(inflight) :
        LET c == get_credentials(file)
        IN  /\ proc = "login"
            /\ inflight[i].pc = "verified"
            /\ inflight' = RemoveAt(inflight, i)
            /\ IF c.raised # ""
               THEN /\ run' = [Run("login", c.raised) EXCEPT
                                  !.reads = 2, !.verified = TRUE, !.key = inflight[i].key]
                    /\ UNCHANGED <<proc, unlocked, ring>>
               ELSE /\ unlocked' = c.ret[1]
                    /\ proc' = IF c.ret[1] = None THEN proc ELSE "app"
                    /\ ring' = IF c.ret[1] = None THEN ring ELSE FALSE
                    /\ run' = [Run("login", IF c.ret[1] = None THEN "TypeError" ELSE "Success")
                                  EXCEPT !.reads = 2, !.verified = TRUE, !.calls = 1,
                                         !.key = inflight[i].key]
            /\ UNCHANGED <<file, mode, msg, progress, dialog, api_key_tf, pin_tf, call, issued,
                           quizVars>>

ConcInit == file \in ConcFiles /\ call = NoCall /\ GateOff /\ QuizOff

ConcNext ==
    \/ Boot
    \/ CheckClicked
    \/ CheckReturned
    \/ PinShown
    \/ LoginClicked
    \/ LoginHanded
    \/ OnResetClick

SpecConc == ConcInit /\ [][ConcNext]_vars

----------------------------------------------------------------------------
(* The credential store's claims. *)

AllOrNone(f) == HasAll(f) \/ HasNone(f)

EmptyCredentials == [raised |-> "", ret |-> <<None, None, None>>]

C5_SaveKeepsOtherKeys ==
    (call.op = "save_credentials" /\ call.raised = "") =>
        LET before == Record(call.before)
            after == Record(file)
        IN  /\ DOMAIN after = DOMAIN before \cup CredKeys
            /\ \A k \in CredKeys : after[k] = call.written[k]
            /\ \A k \in DOMAIN before \ CredKeys : after[k] = before[k]

C5_Witness ==
    /\ call.op = "save_credentials" /\ call.raised = ""
    /\ HasAll(call.before)
    /\ "theme" \in DOMAIN Record(call.before)
    /\ \A k \in CredKeys : Record(call.before)[k] # Record(file)[k]

\* C6: get_credentials never raises and yields (None, None, None) whenever
\* the store file is missing, unreadable, not JSON, or JSON whose top-level
\* value is not an object.
C6_LoadOfCorruptIsEmpty ==
    (call.op = "get_credentials"
        /\ call.before.kind \in {"missing", "unreadable", "badjson", "nonobject"})
    => (call.raised = "" /\ call.ret = <<None, None, None>>)

\* C7: in the state a completed save_credentials(api_key, pin) leaves,
\* get_credentials returns the api_key that was passed, in clear text, with
\* the pin_hash and the pin_salt that this save wrote.
C7_SaveThenLoad ==
    (call.op = "save_credentials" /\ call.raised = "") =>
        get_credentials(file) =
            [raised |-> "",
             ret |-> <<call.api_key, call.written["pin_hash"], call.written["pin_salt"]>>]

C7_Witness ==
    /\ call.op = "save_credentials" /\ call.raised = ""
    /\ HasAll(call.before)
    /\ get_credentials(call.before).ret[1] # call.api_key
    /\ get_credentials(file).ret[1] = call.api_key

\* C8: in the state a completed clear_credentials leaves, get_credentials
\* yields (None, None, None) whatever the file held before, and a second
\* clear_credentials leaves the file as it is.
C8_ClearThenLoad ==
    (call.op = "clear_credentials" /\ call.raised = "") =>
        /\ get_credentials(file) = EmptyCredentials
        /\ clear_credentials(file, "ok") = [raised |-> "", file |-> file]

C8_Witness ==
    /\ call.op = "clear_credentials" /\ call.raised = ""
    /\ HasAll(call.before)
    /\ get_credentials(call.before).ret # <<None, None, None>>

----------------------------------------------------------------------------
(* The login card's claims. *)

IsAsciiPin(s) == Len(s) = PinLength /\ \A i \in 1..Len(s) : s[i] \in AsciiDigits

\* C1: once make_login_card has run, whatever the store file holds, the card
\* is in mode "pin" if the file's api_key is a non-empty string and in mode
\* "first" otherwise (missing, unreadable or corrupt file, no api_key, empty
\* api_key).
C1_InitialMode ==
    run.op = "boot" =>
        mode = (IF Truthy(dict_get(Record(file), "api_key")) THEN "pin" ELSE "first")

\* C2: a run of on_check_click whose key check returns ok = false (whatever
\* the error, a 2xx answer with balance <= 0 included) leaves the mode
\* "first", the store file as it was and no PIN dialog open, generates no
\* PIN, and shows the check's error message, or the fallback message when
\* the check gave none.
C2_RejectedKeyChangesNothing ==
    [][(run'.op = "check" /\ run'.requests = 1 /\ ~run'.result.ok) =>
          /\ mode = "first" /\ mode' = "first"
          /\ file' = file
          /\ dialog' = None
          /\ run'.pin = None /\ run'.writes = 0
          /\ Truthy(msg')
          /\ msg' = (IF Truthy(run'.result.err) THEN run'.result.err ELSE MsgLowBalance)]_vars

C2_Witness ==
    /\ run.op = "check" /\ run.requests = 1
    /\ run.result = Result(FALSE, -1, EmptyStr)
    /\ msg = MsgLowBalance
    /\ mode = "first"

\* C3: when a run of on_check_click whose key check returned ok = true has
\* returned, the store file holds all three fields, its api_key is the
\* submitted key (the text of the field, stripped), the dialog shows the PIN
\* the run generated, and verify_pin accepts that PIN and no other text.
C3_RegisteredRecordVerifiesShownPin ==
    (run.op = "check" /\ run.result.ok /\ run.outcome = "Registered") =>
        /\ HasAll(file)
        /\ Record(file)["api_key"] = strip(api_key_tf)
        /\ Truthy(strip(api_key_tf))
        /\ dialog = run.pin
        /\ IsAsciiPin(dialog)
        /\ \A q \in PinTexts \cup GeneratedPins :
              verify_pin(file, q) = [raised |-> "", ret |-> (q = dialog)]

C3_Witness ==
    /\ run.op = "check" /\ run.result.ok /\ run.outcome = "Registered"
    /\ api_key_tf # strip(api_key_tf)
    /\ dialog = format_04d(1)
    /\ mode = "pin"

\* C9: the text submitted by on_login_click reaches verify_pin if and only
\* if it is exactly 4 ASCII digits; any other text is rejected with the
\* format message.
C9_OnlyFourAsciiDigitsReachVerify ==
    run.op = "login" =>
        /\ run.verified <=> IsAsciiPin(pin_tf)
        /\ ~IsAsciiPin(pin_tf) => (run.outcome = "InvalidFormat" /\ msg = MsgEnterPin)

\* C10: a run of on_login_click that rejects the text for its format reads
\* and writes no store file and changes nothing of the card but the message.
C10_FormatRejectionTouchesNothing ==
    [][(run'.op = "login" /\ run'.outcome = "InvalidFormat") =>
          /\ run'.reads = 0 /\ run'.writes = 0 /\ ~run'.verified
          /\ file' = file
          /\ mode' = mode /\ mode = "pin"
          /\ proc' = proc
          /\ dialog' = dialog
          /\ unlocked' = unlocked
          /\ progress' = progress
          /\ api_key_tf' = api_key_tf
          /\ msg' = MsgEnterPin]_vars

C10_Witness ==
    /\ run.op = "login" /\ run.outcome = "InvalidFormat"
    /\ pin_tf = <<"0", "0", "a", "1">>
    /\ HasAll(file)
    /\ msg = MsgEnterPin

\* C11: on the card in PIN mode over a full record, a click on "login" with
\* a well-formed PIN that verify_pin accepts calls on_success once, with the
\* api_key of the stored record; on_success is called in no other run.
C11_RightPinHandsStoredKey ==
    [][LET pin == strip(pin_tf')
           right == /\ Clickable("pin")
                    /\ HasAll(file)
                    /\ well_formed(pin)
                    /\ verify_pin(file, pin).ret
       IN  /\ (run'.op = "login" /\ right) =>
                  /\ run'.outcome = "Success"
                  /\ run'.calls = 1
                  /\ unlocked = NotCalled
                  /\ unlocked' = Record(file)["api_key"]
                  /\ proc' = "app"
                  /\ file' = file
           /\ (run'.calls > 0 \/ (unlocked' # unlocked /\ unlocked' # NotCalled)) =>
                  (run'.op = "login" /\ right)]_vars

C11_Witness ==
    /\ run.op = "login" /\ run.outcome = "Success" /\ run.calls = 1
    /\ HasAll(file)
    /\ unlocked \in ApiKeys
    /\ unlocked = Record(file)["api_key"]
    /\ verify_pin(file, strip(pin_tf)).ret

\* C12: a well-formed PIN that verify_pin refuses gets the wrong-PIN message,
\* leaves the card in PIN mode and clickable, the store as it was and
\* on_success not called; and right after a wrong PIN, however many came before
\* it, a PIN that verify_pin accepts still logs in.
C12_WrongPinNeverLocks ==
    [][LET pin == strip(pin_tf')
           v == verify_pin(file, pin)
       IN  /\ (run'.op = "login" /\ well_formed(pin) /\ v.raised = "" /\ ~v.ret) =>
                  /\ run'.outcome = "WrongPin"
                  /\ msg' = MsgWrongPin
                  /\ file' = file
                  /\ run'.calls = 0 /\ run'.writes = 0
                  /\ unlocked' = NotCalled
                  /\ proc' = "login" /\ mode' = "pin" /\ dialog' = None
           /\ (run.outcome = "WrongPin" /\ run'.op = "login" /\ well_formed(pin) /\ v.ret) =>
                  /\ run'.outcome = "Success"
                  /\ run'.wrongs = run.wrongs
                  /\ unlocked' = Record(file)["api_key"]]_vars

\* A login right after MaxWrong (or more) wrong PINs in a row
C12_Witness ==
    /\ run.op = "login" /\ run.outcome = "Success"
    /\ run.wrongs = MaxWrong
    /\ unlocked = Record(file)["api_key"]

\* C13: a reset that completes leaves the store without credentials, so that
\* verify_pin refuses every PIN, and the card in first-run mode; while the
\* store holds no credentials no run of on_login_click logs in; and only a key
\* registration puts credentials into a store that holds none.
C13_ResetUntilRegistration ==
    [][/\ (run'.op = "reset" /\ run'.outcome = "Reset") =>
              /\ mode = "pin" /\ mode' = "first"
              /\ HasNone(file')
              /\ get_credentials(file').ret = <<None, None, None>>
              /\ \A q \in PinTexts : ~verify_pin(file', q).ret
              /\ unlocked' = NotCalled
       /\ (HasNone(file) /\ run'.op = "login") =>
              /\ run'.outcome \in {"InvalidFormat", "WrongPin"}
              /\ unlocked' = NotCalled
       /\ (HasNone(file) /\ ~HasNone(file')) =>
              (run'.op = "check" /\ run'.outcome = "Registered")]_vars

\* The store held a record whose PIN was shown, and the reset emptied it
C13_Witness ==
    /\ run.op = "reset" /\ run.outcome = "Reset"
    /\ mode = "first"
    /\ proc = "login"
    /\ file = Object(EmptyDict)
    /\ \A q \in PinTexts : ~verify_pin(file, q).ret

----------------------------------------------------------------------------
(* The key check's claims. *)

Checked == call.op = "check_api_key_balance" /\ call.resp.net = "ok"
Is2xx(status) == 200 <= status /\ status < 300

\* C14: for status 401 and 403 check_api_key_balance returns (False, 0.0,
\* invalid-key message) and for 429 (False, 0.0, rate-limit message), whatever
\* the body is.
C14_AuthAndRateStatuses ==
    Checked =>
        /\ call.resp.status \in {401, 403} => call.result = Result(FALSE, 0, ErrInvalidKey)
        /\ call.resp.status = 429 => call.result = Result(FALSE, 0, ErrRateLimited)

\* 403 with a body that carries a positive balance
C14_Witness ==
    /\ Checked
    /\ call.resp.status = 403
    /\ call.resp.body = Balance(2, 1)
    /\ call.result = Result(FALSE, 0, ErrInvalidKey)

\* C15: for every status outside 2xx other than 401, 403 and 429
\* check_api_key_balance returns (False, 0.0, HTTP-error message).
C15_OtherStatusesAreHttpErrors ==
    (Checked /\ ~Is2xx(call.resp.status) /\ call.resp.status \notin {401, 403, 429}) =>
        call.result = Result(FALSE, 0, ErrHttp)

\* C16: for a 2xx response whose data object carries numbers as total_credits
\* and total_usage, check_api_key_balance returns their difference as the
\* balance, is_ok = (balance > 0) and an empty message; and whatever the
\* response, is_ok is true only with a balance above 0.
C16_BalanceIsDifference ==
    /\ call.result.ok => call.result.balance > 0
    /\ LET b == call.resp.body
       IN  (/\ Checked
            /\ Is2xx(call.resp.status)
            /\ b.json = "object" /\ b.data = "object"
            /\ b.credits.t = "num" /\ b.usage.t = "num") =>
               /\ call.result.balance = b.credits.n - b.usage.n
               /\ call.result.ok <=> (b.credits.n - b.usage.n > 0)
               /\ call.result.err = EmptyStr

\* A balance of exactly 0
C16_Witness ==
    /\ Checked
    /\ call.resp.status = 200
    /\ call.resp.body = Balance(1, 1)
    /\ call.result = Result(FALSE, 0, EmptyStr)

\* C17: for a 2xx response whose body is not JSON, or whose data is not an
\* object, or whose total_credits or total_usage is missing or no number,
\* check_api_key_balance returns (False, 0.0, unexpected-error message).
C17_UnparsableBodyIsUnexpected ==
    LET b == call.resp.body
    IN  (/\ Checked
         /\ Is2xx(call.resp.status)
         /\ \/ b.json # "object"
            \/ b.data # "object"
            \/ b.credits.t # "num"
            \/ b.usage.t # "num") =>
            call.result = Result(FALSE, 0, ErrUnexpected)

----------------------------------------------------------------------------
(* The login card and the key check. *)

\* C18: a handler run makes at most one request to the key check, and only
\* a click on "check" with a key that is not empty makes one; when the
\* request fails on the network the same run shows the network-error message,
\* after that one request, and leaves the card in first-run mode with the
\* store untouched.
C18_OneRequestPerSubmission ==
    [][/\ run'.requests <= 1
       /\ run'.requests > 0 =>
              /\ run'.op = "check"
              /\ Clickable("first")
              /\ Truthy(strip(api_key_tf'))
       /\ (run'.op = "check" /\ run'.result = Result(FALSE, 0, ErrNetwork)) =>
              /\ run'.requests = 1
              /\ run'.outcome = "Rejected"
              /\ msg' = ErrNetwork
              /\ progress' = FALSE
              /\ file' = file
              /\ mode' = "first"
              /\ dialog' = None]_vars

C18_Witness ==
    /\ run.op = "check" /\ run.outcome = "Rejected"
    /\ run.result = Result(FALSE, 0, ErrNetwork)
    /\ run.requests = 1
    /\ msg = ErrNetwork
    /\ mode = "first"

----------------------------------------------------------------------------
(* The card with its handlers in threads. *)

\* C19: while a run of on_check_click is under way no second run is started
\* (so there is one key check and one save at a time), and once the runs are
\* over the PIN in the dialog opened last is the one the store verifies.
C19_SubmissionsSerialized ==
    /\ Len(inflight) <= 1
    /\ (inflight = <<>> /\ dialog # None) => verify_pin(file, dialog).ret

----------------------------------------------------------------------------
(* The PIN hasher's claim. *)

\* C20: under one salt two PINs have the same hash only when they are the
\* same PIN; and after a save_credentials(k, p) that completes, verify_pin(q)
\* is true for q = p and false for every other q.
C20_VerifyExactlyTheSavedPin ==
    /\ \A p1 \in CallPins \cup PinTexts, p2 \in CallPins, token_bytes \in TokenBytes :
          (_hash_pin(p1, b64encode(token_bytes)) = _hash_pin(p2, b64encode(token_bytes)))
              <=> (p1 = p2)
    /\ (call.op = "save_credentials" /\ call.raised = "") =>
          \A q \in CallPins \cup PinTexts : verify_pin(file, q).ret <=> (q = call.pin)

\* A save after which the saved PIN verifies and another 4-digit PIN does not
C20_Witness ==
    /\ call.op = "save_credentials" /\ call.raised = ""
    /\ verify_pin(file, call.pin).ret
    /\ \E q \in CallPins : q # call.pin /\ ~verify_pin(file, q).ret

----------------------------------------------------------------------------
(* The card over restarts. *)

\* C21: a registration leaves its PIN and its trimmed key as the issued ones;
\* a process started over the store file they were written to shows the card
\* in PIN mode; a click on "login" with the issued PIN then calls on_success
\* with the registered key; and neither the start nor a click on "login"
\* makes a request to the key check.
C21_RestartKeepsRegistration ==
    [][/\ (run'.op = "check" /\ run'.outcome = "Registered") =>
              /\ issued'.pin = dialog'
              /\ issued'.key = strip(api_key_tf')
       /\ (run'.op = "boot" /\ issued # NoIssue) =>
              /\ proc' = "login"
              /\ mode' = "pin"
              /\ file' = file
       /\ (run'.op = "login" /\ issued # NoIssue /\ issued.restarted
              /\ strip(pin_tf') = issued.pin) =>
              /\ run'.outcome = "Success"
              /\ unlocked' = issued.key
       /\ run'.op \in {"boot", "login"} => run'.requests = 0]_vars

\* A login with the issued PIN in a process started after the registration
C21_Witness ==
    /\ run.op = "login" /\ run.outcome = "Success"
    /\ issued # NoIssue /\ issued.restarted
    /\ strip(pin_tf) = issued.pin
    /\ unlocked = issued.key
    /\ run.requests = 0

\* C22: a dialog with a PIN is opened only by the run of on_check_click that
\* registers the key, and it shows the PIN that run generated; the record
\* that run writes has no member whose value is the PIN, get_credentials
\* returns it in none of its three values, and no text of the card holds it.
C22_PinShownOnceNeverStored ==
    [][/\ (dialog' # dialog /\ dialog' # None) =>
              /\ run'.op = "check" /\ run'.outcome = "Registered"
              /\ dialog' = run'.pin
              /\ dialog = None
       /\ (run'.op = "check" /\ run'.outcome = "Registered") =>
              /\ \A k \in DOMAIN Record(file') : Record(file')[k] # run'.pin
              /\ \A i \in 1..3 : get_credentials(file').ret[i] # run'.pin
              /\ msg' # run'.pin /\ api_key_tf' # run'.pin /\ pin_tf' # run'.pin
       /\ run'.op \in {"boot", "login", "reset", "close_dialog"} =>
              (dialog' = None \/ dialog' = dialog)]_vars

\* The card started again over the record of a registration: no dialog, and
\* the issued PIN is no member of the record
C22_Witness ==
    /\ run.op = "boot" /\ proc = "login" /\ mode = "pin"
    /\ issued # NoIssue /\ issued.restarted
    /\ dialog = None
    /\ \A k \in DOMAIN Record(file) : Record(file)[k] # issued.pin

----------------------------------------------------------------------------
(* The card over a record without a PIN. *)

\* The store holds a key and lacks the hash or the salt, or holds it empty
NoValidPin(f) ==
    LET c == get_credentials(f)
    IN  /\ c.raised = ""
        /\ Truthy(c.ret[1])
        /\ ~Truthy(c.ret[2]) \/ ~Truthy(c.ret[3])

\* C24: over a store that holds an api_key and no pin_hash or no pin_salt
\* (absent or empty) verify_pin returns False for every PIN, and a click on
\* "login" ends as a format rejection or a wrong PIN, with on_success not
\* called.
C24_KeyWithoutPinNeverUnlocks ==
    [][NoValidPin(file) =>
          /\ \A q \in PinTexts \cup CallPins :
                verify_pin(file, q).raised = "" /\ ~verify_pin(file, q).ret
          /\ run'.op = "login" =>
                /\ run'.outcome \in {"InvalidFormat", "WrongPin"}
                /\ run'.calls = 0
                /\ unlocked' = NotCalled
                /\ proc' = "login"]_vars

\* A well-formed PIN refused over a record with a key and no salt
C24_Witness ==
    /\ run.op = "login" /\ run.outcome = "WrongPin"
    /\ NoValidPin(file)
    /\ "pin_hash" \in DOMAIN Record(file)
    /\ "pin_salt" \notin DOMAIN Record(file)
    /\ unlocked = NotCalled

----------------------------------------------------------------------------
(* The two copies of the card. *)

\* C25: from every state either copy reaches, a step is one of make_login_card
\* for an event (start, check click, login click, reset click) exactly when
\* it is one of LoginCard for that event: the two go to the same mode, store
\* file, texts, dialog and call of on_success.
C25_CopiesTakeTheSameSteps ==
    [][/\ Boot <=> LoginCard_init
       /\ OnCheckClick <=> LoginCardOnCheckClick
       /\ OnLoginClick <=> LoginCardOnLoginClick
       /\ OnResetClick <=> LoginCardOnResetClick]_vars

\* A registration, a restart and a login taken by either copy
C25_Witness ==
    /\ run.op = "login" /\ run.outcome = "Success"
    /\ issued # NoIssue /\ issued.restarted
    /\ unlocked = issued.key
    /\ msg = MsgWrongPin

----------------------------------------------------------------------------
(* The calls of on_success. *)

\* C26: on_success is called only in a run of on_login_click whose PIN passed
\* the format check and verify_pin in that run; the runs of on_check_click,
\* on_reset_click, of the dialog's button and the making of the card do not
\* call it, nor does a run that rejects the PIN for its format or as wrong.
C26_OnlyVerifiedLoginCallsOnSuccess ==
    [][/\ (run'.calls > 0 \/ (unlocked' # unlocked /\ unlocked' # NotCalled)) =>
              /\ run'.op = "login" /\ run'.outcome = "Success"
              /\ run'.verified
              /\ well_formed(strip(pin_tf'))
              /\ verify_pin(file, strip(pin_tf')).ret
       /\ run'.op \in {"check", "reset", "boot", "close_dialog"} =>
              /\ run'.calls = 0
              /\ unlocked' = unlocked
       /\ (run'.op = "login" /\ run'.outcome # "Success") =>
              /\ run'.calls = 0
              /\ unlocked' = NotCalled]_vars

\* on_success called by a first, right PIN
C26_Witness ==
    /\ run.op = "login" /\ run.calls = 1 /\ run.verified
    /\ run.wrongs = 0
    /\ proc = "app"
    /\ unlocked # NotCalled

----------------------------------------------------------------------------
(* The PIN in force. *)

\* C27: once a registration has written the store, and until the store is
\* written again, verify_pin accepts the PIN of that registration and no
\* other; and over a store without credentials it accepts none.
C27_OnlyTheLastIssuedPinVerifies ==
    \A q \in PinTexts \cup CallPins :
        /\ issued # NoIssue =>
              /\ ~HasNone(file)
              /\ verify_pin(file, q).ret <=> (q = issued.pin)
        /\ HasNone(file) => ~verify_pin(file, q).ret

\* After a restart, another PIN of the generated form is refused
C27_Witness ==
    /\ run.op = "login" /\ run.outcome = "WrongPin"
    /\ issued # NoIssue /\ issued.restarted
    /\ strip(pin_tf) \in GeneratedPins
    /\ strip(pin_tf) # issued.pin

----------------------------------------------------------------------------
(* The login with its handlers in threads. *)

\* C28: what on_success is called with is a string that is not empty, and it
\* is the api_key of the record verify_pin read in that run.
C28_HandedKeyIsTheVerifiedRecordsKey ==
    (run.op = "login" /\ run.calls > 0) =>
        /\ unlocked # None
        /\ Truthy(unlocked)
        /\ unlocked = run.key

----------------------------------------------------------------------------
(* The text of the key field. *)

Padded(k) == <<" ">> \o k \o <<" ">>

\* C29: a click on the check button over a key field that is empty or holds
\* only whitespace is turned down on the spot: no request is made, the store
\* is not written, the card stays in first-run mode and the prompt for a key
\* is shown.  Over a key, bare or padded with whitespace, the key passed to
\* check_api_key_balance is the bare key, and so is the api_key of the
\* record a registration stores.
C29_BlankKeyTurnedDownKeyTrimmed ==
    [][run'.op = "check" =>
          /\ api_key_tf' \in {EmptyStr, <<" ">>, <<" ", " ">>} =>
                 /\ run'.outcome = "EmptyKey"
                 /\ run'.requests = 0 /\ run'.writes = 0 /\ run'.key = None
                 /\ file' = file
                 /\ mode = "first" /\ mode' = "first"
                 /\ dialog' = dialog
                 /\ msg' = MsgEnterKey
          /\ \A k \in ApiKeys :
                 api_key_tf' \in {k, Padded(k)} =>
                    /\ run'.requests = 1
                    /\ run'.key = k
                    /\ run'.outcome = "Registered" => Record(file')["api_key"] = k
      ]_vars

C29_Witness ==
    /\ run.op = "check" /\ run.outcome = "EmptyKey"
    /\ api_key_tf = <<" ">>
    /\ msg = MsgEnterKey
    /\ mode = "first" /\ ~HasAll(file)

----------------------------------------------------------------------------
(* The message and the progress ring after a key check. *)

\* A run of on_check_click whose key check has returned
CheckCompleted == run.op = "check" /\ run.requests > 0

\* The message alone: after a key check that returned ok = false a message
\* is shown, the low-balance text where the check
\* returned no error text, and progress.visible is False after every check
MessageShownOnRejection ==
    CheckCompleted =>
        /\ ~run.result.ok =>
               /\ msg # EmptyStr
               /\ run.result.err = EmptyStr => msg = MsgLowBalance
        /\ ~progress

\* C30: after a key check that returned ok = false the message shown is not
\* empty, also where check_api_key_balance returned an empty error text, and
\* after every key check that has returned the progress ring is no longer
\* displayed.
C30_MessageShownAndRingHidden ==
    CheckCompleted =>
        /\ ~run.result.ok => msg # EmptyStr
        /\ ~ring

----------------------------------------------------------------------------
(* A registration whose write fails. *)

\* A run of on_check_click that save_credentials ended by raising
SaveFailed == run.op = "check" /\ run.result.ok /\ run.outcome = "OSError"

\* C31: when save_credentials raises after a key check that returned ok,
\* the card is still in first-run mode with no PIN dialog open, the check
\* button can be clicked again, and a save_credentials that the disk lets
\* through then stores a record with the key, which its PIN verifies.
C31_FailedSaveLeavesFirstRun ==
    SaveFailed =>
        /\ mode = "first"
        /\ dialog = None
        /\ Clickable("first")
        /\ \A k \in ApiKeys, n \in 0..MaxRand, token_bytes \in TokenBytes :
              LET s == save_credentials(file, k, format_04d(n), token_bytes, "ok")
              IN  /\ s.raised = ""
                  /\ get_credentials(s.file).ret[1] = k
                  /\ verify_pin(s.file, format_04d(n)).ret

C31_Witness ==
    /\ SaveFailed
    /\ run.writes = 1
    /\ file = BadJson
    /\ mode = "first" /\ dialog = None

----------------------------------------------------------------------------
(* The quiz bot (DT_study_bot): one user's /quiz commands and answer       *)
(* callbacks.  The dispatcher handles every update in a task of its own,   *)
(* so the handlers of one user interleave at their awaits: a handler is    *)
(* one step per database call or Telegram call that changes state.         *)

\* len(quiz_data)
NumQuestions == 2
\* How many /quiz commands the user sends, and how many handlers run at once
MaxQuizzes == 2
MaxTasks == 2

\* get_quiz_index(user_id) over the user's rows of quiz_state
get_quiz_index(rows) == IF rows = <<>> THEN 0 ELSE rows[1]

\* update_quiz_index(user_id, index): INSERT OR REPLACE on the primary key
update_quiz_index(rows, index) == <<index>>

\* record_result(user_id, passed): INSERT
record_result(rows, passed) == Append(rows, passed)

\* quiz_data[index] raises IndexError outside the list
InQuizData(index) == index \in 0..(NumQuestions - 1)

Task(op, pc, message, index) ==
    [op |-> op, pc |-> pc, message |-> message, current_question_index |-> index]

QuizStep(op, index, raised) ==
    [quiz_log EXCEPT !.op = op, !.index = index, !.raised = raised]

Without(seq, i) == SubSeq(seq, 1, i - 1) \o SubSeq(seq, i + 1, Len(seq))

\* /quiz or the start button arrives: cmd_quiz up to new_quiz
CmdQuiz ==
    /\ quiz_log.quizzes < MaxQuizzes
    /\ Len(tasks) < MaxTasks
    /\ tasks' = Append(tasks, Task("cmd_quiz", "new_quiz", 0, -1))
    /\ quiz_log' = [QuizStep("cmd_quiz", -1, "") EXCEPT !.quizzes = quiz_log.quizzes + 1]
    /\ UNCHANGED <<quiz_state, quiz_results, markup, file, call, gateVars>>

\* new_quiz: update_quiz_index(user_id, 0)
NewQuiz ==
    \E i \in 1..Len(tasks) :
        /\ tasks[i].pc = "new_quiz"
        /\ quiz_state' = update_quiz_index(quiz_state, 0)
        /\ tasks' = [tasks EXCEPT ![i].pc = "get_question"]
        /\ quiz_log' = QuizStep("new_quiz", -1, "")
        /\ UNCHANGED <<quiz_results, markup, file, call, gateVars>>

\* get_question: reads the stored index anew, reads quiz_data at it and
\* sends the question with its keyboard
GetQuestion ==
    \E i \in 1..Len(tasks) :
        LET current_question_index == get_quiz_index(quiz_state)
        IN  /\ tasks[i].pc = "get_question"
            /\ tasks' = Without(tasks, i)
            /\ IF InQuizData(current_question_index)
               THEN /\ markup' = Append(markup, TRUE)
                    /\ quiz_log' = QuizStep("get_question", current_question_index, "")
               ELSE /\ quiz_log' = QuizStep("get_question", current_question_index,
                                            "IndexError")
                    /\ UNCHANGED markup
            /\ UNCHANGED <<quiz_state, quiz_results, file, call, gateVars>>

\* The user presses a button of a question message whose keyboard is on
AnswerCallback ==
    \E message \in 1..Len(markup), op \in {"right_answer", "wrong_answer"} :
        /\ markup[message]
        /\ Len(tasks) < MaxTasks
        /\ tasks' = Append(tasks, Task(op, "get_quiz_index", message, -1))
        /\ quiz_log' = QuizStep("callback", -1, "")
        /\ UNCHANGED <<quiz_state, quiz_results, markup, file, call, gateVars>>

\* right_answer / wrong_answer: get_quiz_index and the read of quiz_data
AnswerGetIndex ==
    \E i \in 1..Len(tasks) :
        LET current_question_index == get_quiz_index(quiz_state)
        IN  /\ tasks[i].pc = "get_quiz_index"
            /\ IF InQuizData(current_question_index)
               THEN /\ tasks' = [tasks EXCEPT ![i].pc = "edit_message_reply_markup",
                                              ![i].current_question_index =
                                                  current_question_index]
                    /\ quiz_log' = QuizStep(tasks[i].op, current_question_index, "")
               ELSE /\ tasks' = Without(tasks, i)
                    /\ quiz_log' = QuizStep(tasks[i].op, current_question_index,
                                            "IndexError")
            /\ UNCHANGED <<quiz_state, quiz_results, markup, file, call, gateVars>>

\* right_answer / wrong_answer: edit_message_reply_markup(reply_markup=None);
\* Telegram refuses an edit that changes nothing ("message is not modified")
AnswerEditMarkup ==
    \E i \in 1..Len(tasks) :
        /\ tasks[i].pc = "edit_message_reply_markup"
        /\ IF markup[tasks[i].message]
           THEN /\ markup' = [markup EXCEPT ![tasks[i].message] = FALSE]
                /\ tasks' = [tasks EXCEPT ![i].pc = "update_quiz_index"]
                /\ quiz_log' = QuizStep("edit_message_reply_markup", -1, "")
           ELSE /\ tasks' = Without(tasks, i)
                /\ quiz_log' = QuizStep("edit_message_reply_markup", -1, "TelegramBadRequest")
                /\ UNCHANGED markup
        /\ UNCHANGED <<quiz_state, quiz_results, file, call, gateVars>>

\* right_answer / wrong_answer: update_quiz_index(user_id, index + 1) and
\* the choice between the next question and the end of the quiz
AnswerUpdateIndex ==
    \E i \in 1..Len(tasks) :
        LET current_question_index == tasks[i].current_question_index
        IN  /\ tasks[i].pc = "update_quiz_index"
            /\ quiz_state' = update_quiz_index(quiz_state, current_question_index + 1)
            /\ tasks' = [tasks EXCEPT ![i].pc =
                            IF current_question_index + 1 < NumQuestions
                            THEN "get_question" ELSE "record_result"]
            /\ quiz_log' = QuizStep("update_quiz_index", -1, "")
            /\ UNCHANGED <<quiz_results, markup, file, call, gateVars>>

\* right_answer / wrong_answer past the last question: record_result
AnswerRecordResult ==
    \E i \in 1..Len(tasks) :
        /\ tasks[i].pc = "record_result"
        /\ quiz_results' = record_result(quiz_results, tasks[i].op = "right_answer")
        /\ tasks' = Without(tasks, i)
        /\ quiz_log' = QuizStep("record_result", -1, "")
        /\ UNCHANGED <<quiz_state, markup, file, call, gateVars>>

QuizInit == file = Missing /\ call = NoCall /\ GateOff /\ QuizOff

QuizNext ==
    \/ CmdQuiz
    \/ NewQuiz
    \/ GetQuestion
    \/ AnswerCallback
    \/ AnswerGetIndex
    \/ AnswerEditMarkup
    \/ AnswerUpdateIndex
    \/ AnswerRecordResult

SpecQuiz == QuizInit /\ [][QuizNext]_vars

\* C32: every read of quiz_data by right_answer, wrong_answer and
\* get_question is made at a stored question index within
\* 0..len(quiz_data)-1.
C32_QuizDataReadWithinBounds ==
    quiz_log.index # -1 => quiz_log.index \in 0..(NumQuestions - 1)

\* C33: every update_quiz_index of an answer callback leaves the stored
\* question index one above what it was, also when another callback of the
\* user runs between its get_quiz_index and its update_quiz_index, and the
\* rows of quiz_results are never more than the quizzes begun.
C33_EachAnswerAdvancesByOne ==
    [][/\ quiz_log'.op = "update_quiz_index" =>
              get_quiz_index(quiz_state') = get_quiz_index(quiz_state) + 1
       /\ Len(quiz_results') <= quiz_log'.quizzes]_vars

====
